---- MODULE Spec2Model ----
(***************************************************************************)
(* Model of bones.py: bone-name resolution, bone creation and copying      *)
(* between two armatures, pose constraints, and accessory-bone             *)
(* classification.                                                         *)
(*                                                                         *)
(* A bone name is a sequence of characters, so that startswith() and the   *)
(* slices name[3:] / name[8:] are computed as Python computes them.  The   *)
(* empty sequence stands for both the empty string and None: the code      *)
(* tests names with "if name:", which treats the two alike.                *)
(***************************************************************************)
EXTENDS Integers, Sequences, FiniteSets, TLC

VARIABLES
    nmIn,    \* name-resolver inputs: requested name, second name, bone store
    nmOut,   \* name-resolver outputs of the last call
    cc3,     \* the source (CC3) rig
    dst0,    \* the destination rig as it was before the call
    dst,     \* the destination rig
    last,    \* the call made on the rigs: operation, arguments and outcome
    accIn,   \* accessory classifier inputs: mapping table and rig
    accOut   \* accessory classifier outputs of the last call

vars == <<nmIn, nmOut, cc3, dst0, dst, last, accIn, accOut>>

-----------------------------------------------------------------------------
(* Names                                                                   *)

None == <<>>

RL == <<"R", "L", "_">>

CC_Base == <<"C", "C", "_", "B", "a", "s", "e", "_">>

\* name.startswith(prefix)
startswith(name, prefix) ==
    /\ Len(name) >= Len(prefix)
    /\ SubSeq(name, 1, Len(prefix)) = prefix

\* name[n:]
slice_from(name, n) == SubSeq(name, n + 1, Len(name))

\* the leading "RL_" else "CC_Base_" removed, at most one of them
strip_rl_first(name) ==
    IF startswith(name, RL) THEN slice_from(name, 3)
    ELSE IF startswith(name, CC_Base) THEN slice_from(name, 8)
    ELSE name

\* variant: only bone_name is normalised
cmp_rl_bone_names_one_sided(name, bone_name) ==
    name = strip_rl_first(bone_name)

cmp_rl_bone_names(name, bone_name) ==
    strip_rl_first(name) = strip_rl_first(bone_name)

\* The lookup of get_rl_edit_bone / get_rl_bone / get_rl_pose_bone over a bone
\* store (the set of names the store holds); the result is the name of the
\* bone returned, or None.
\* variant: the prefix-stripped names are tried before the exact name
get_rl_edit_bone_strip_first(edit_bones, name) ==
    IF name = None THEN None
    ELSE LET n1 == IF startswith(name, CC_Base) THEN slice_from(name, 8) ELSE name
             hit1 == startswith(name, CC_Base) /\ n1 \in edit_bones
             n2 == IF startswith(n1, RL) THEN slice_from(n1, 3) ELSE n1
             hit2 == startswith(n1, RL) /\ n2 \in edit_bones
         IN  IF hit1 THEN n1 ELSE IF hit2 THEN n2
             ELSE IF name \in edit_bones THEN name ELSE None

get_rl_edit_bone(edit_bones, name) ==
    IF name = None THEN None
    ELSE IF name \in edit_bones THEN name
    ELSE LET n1 == IF startswith(name, CC_Base) THEN slice_from(name, 8) ELSE name
             hit1 == startswith(name, CC_Base) /\ n1 \in edit_bones
             n2 == IF startswith(n1, RL) THEN slice_from(n1, 3) ELSE n1
             hit2 == startswith(n1, RL) /\ n2 \in edit_bones
         IN  IF hit1 THEN n1 ELSE IF hit2 THEN n2 ELSE None

get_rl_bone(bones, name) ==
    IF name = None THEN None
    ELSE IF name \in bones THEN name
    ELSE LET n1 == IF startswith(name, CC_Base) THEN slice_from(name, 8) ELSE name
             hit1 == startswith(name, CC_Base) /\ n1 \in bones
             n2 == IF startswith(n1, RL) THEN slice_from(n1, 3) ELSE n1
             hit2 == startswith(n1, RL) /\ n2 \in bones
         IN  IF hit1 THEN n1 ELSE IF hit2 THEN n2 ELSE None

get_rl_pose_bone(pose_bones, name) ==
    IF name = None THEN None
    ELSE IF name \in pose_bones THEN name
    ELSE LET n1 == IF startswith(name, CC_Base) THEN slice_from(name, 8) ELSE name
             hit1 == startswith(name, CC_Base) /\ n1 \in pose_bones
             n2 == IF startswith(n1, RL) THEN slice_from(n1, 3) ELSE n1
             hit2 == startswith(n1, RL) /\ n2 \in pose_bones
         IN  IF hit1 THEN n1 ELSE IF hit2 THEN n2 ELSE None

\* get_edit_bone / get_bone / get_pose_bone with a single name: exact match.
get_edit_bone(edit_bones, name) ==
    IF name # None /\ name \in edit_bones THEN name ELSE None

-----------------------------------------------------------------------------
(* Bounded name universe: concatenations of at most MaxTokens tokens.      *)

MaxTokens == 3

Tokens == {RL, CC_Base, <<"R", "L">>, <<"x">>}

RECURSIVE Concat(_)
Concat(ts) == IF ts = <<>> THEN <<>> ELSE Head(ts) \o Concat(Tail(ts))

TokenSeqs == UNION {[1..n -> Tokens] : n \in 1..MaxTokens}

Names == {Concat(ts) : ts \in TokenSeqs}

\* the names left when leading tokens of ts are dropped one at a time
TokenSuffixes(ts) == {Concat(SubSeq(ts, k, Len(ts))) : k \in 1..Len(ts)}

Other == <<"y">>

NameInputs ==
    UNION {{[name |-> Concat(ts), other |-> Other, store |-> st] :
                st \in SUBSET (TokenSuffixes(ts) \cup {Other})} :
           ts \in TokenSeqs}
        \cup
    {[name |-> a, other |-> b, store |-> {}] : a \in Names, b \in Names \cup {None}}

NoOut == [op |-> "none", eq |-> FALSE, eqr |-> FALSE,
          edit |-> None, data |-> None, pose |-> None]

InitNames ==
    /\ nmIn \in NameInputs
    /\ nmOut = NoOut
    /\ cc3 = None /\ dst0 = None /\ dst = None /\ last = None
    /\ accIn = None /\ accOut = None

CallCmp ==
    /\ nmOut.op = "none"
    /\ nmOut' = [NoOut EXCEPT !.op = "cmp",
                    !.eq = cmp_rl_bone_names(nmIn.name, nmIn.other),
                    !.eqr = cmp_rl_bone_names(nmIn.other, nmIn.name)]
    /\ UNCHANGED <<nmIn, cc3, dst0, dst, last, accIn, accOut>>

CallGetRl ==
    /\ nmOut.op = "none"
    /\ nmOut' = [NoOut EXCEPT !.op = "get_rl",
                    !.edit = get_rl_edit_bone(nmIn.store, nmIn.name),
                    !.data = get_rl_bone(nmIn.store, nmIn.name),
                    !.pose = get_rl_pose_bone(nmIn.store, nmIn.name)]
    /\ UNCHANGED <<nmIn, cc3, dst0, dst, last, accIn, accOut>>

NextNames == CallCmp \/ CallGetRl

SpecNames == InitNames /\ [][NextNames]_vars

-----------------------------------------------------------------------------
(* Claims on the name resolver (SpecNames)                                 *)

HasPrefix(n) == startswith(n, RL) \/ startswith(n, CC_Base)

\* m is n with its leading "RL_" or "CC_Base_" removed
IsStrippedFormOf(m, n) ==
    \/ startswith(n, RL) /\ m = slice_from(n, 3)
    \/ startswith(n, CC_Base) /\ m = slice_from(n, 8)

\* C5 as stated: for every name N that starts with "RL_" or "CC_Base_",
\* cmp_rl_bone_names holds between N and N without that prefix, in either
\* argument order.
C5_AnyPrefixedName ==
    (nmOut.op = "cmp" /\ IsStrippedFormOf(nmIn.other, nmIn.name))
        => (nmOut.eq /\ nmOut.eqr)

\* C5 amended: the same, for the names N whose stripped form does not itself
\* start with "RL_" or "CC_Base_" (each side loses at most one prefix).
C5_SinglePrefix ==
    (/\ nmOut.op = "cmp"
     /\ IsStrippedFormOf(nmIn.other, nmIn.name)
     /\ ~HasPrefix(nmIn.other))
        => (nmOut.eq /\ nmOut.eqr)

C5_Witness ==
    /\ nmOut.op = "cmp"
    /\ startswith(nmIn.name, CC_Base)
    /\ nmIn.other = slice_from(nmIn.name, 8)
    /\ nmIn.other # None
    /\ ~HasPrefix(nmIn.other)
    /\ nmOut.eq /\ nmOut.eqr

\* C6: when the store holds both the requested name and its prefix-stripped
\* form, each of the three lookups returns the bone with the exact name.
C6_ExactWins ==
    (/\ nmOut.op = "get_rl"
     /\ nmIn.name \in nmIn.store
     /\ \E m \in nmIn.store : IsStrippedFormOf(m, nmIn.name))
        => (/\ nmOut.edit = nmIn.name
            /\ nmOut.data = nmIn.name
            /\ nmOut.pose = nmIn.name)

C6_Witness ==
    /\ nmOut.op = "get_rl"
    /\ nmIn.name \in nmIn.store
    /\ \E m \in nmIn.store : IsStrippedFormOf(m, nmIn.name) /\ m # nmIn.name
    /\ nmOut.edit = nmIn.name

\* C13: each of get_rl_edit_bone, get_rl_bone and get_rl_pose_bone returns a
\* bone only when its name is the requested name or the requested name with
\* its single leading "CC_Base_" or "RL_" removed, none in every other case,
\* and the three give the same answer on stores holding the same names.
C13_OnePrefixOrNone ==
    (nmOut.op = "get_rl")
        => /\ \A r \in {nmOut.edit, nmOut.data, nmOut.pose} :
                r # None => /\ r \in nmIn.store
                            /\ r = nmIn.name \/ IsStrippedFormOf(r, nmIn.name)
           /\ nmOut.edit = nmOut.data
           /\ nmOut.data = nmOut.pose

-----------------------------------------------------------------------------
(* Rigs                                                                    *)
(*                                                                         *)
(* A rig is [order, bone, scale, anim, drivers]: order is the enumeration  *)
(* order of its bone collection, bone maps each bone name to its record,   *)
(* scale is the factor of matrix_world, anim tells whether animation_data  *)
(* is present and drivers counts its driver f-curves.  The edit-bone,      *)
(* data-bone and pose-bone views are addressed by the same names; a bone   *)
(* record holds the fields of each view: parent/head/tail/roll/elayers     *)
(* (edit bone), blayers (data bone), cons (pose bone constraints).         *)
(* Positions are kept along one axis, in whole units; the radii, which     *)
(* are copied like the roll, are left out.  The layer flags of a view are  *)
(* the set of the indices whose flag is true.                              *)

NumLayers == 32

Layers == 0..(NumLayers - 1)

BoneNames(rig) == DOMAIN rig.bone

\* "l == layer" for each l in range(0, 32), as the set of flags left true
LayerFlags(layer) == {l \in Layers : l = layer}

DefaultLayers == {0}

NewBoneRecord ==
    [parent |-> None, head |-> 0, tail |-> 0, roll |-> 0,
     elayers |-> DefaultLayers, blayers |-> DefaultLayers, cons |-> <<>>]

\* bone.children, in collection order
children(rig, name) ==
    SelectSeq(rig.order, LAMBDA n : rig.bone[n].parent = name)

\* strict ancestors of a bone, nearest first
RECURSIVE Ancestors(_, _)
Ancestors(rig, name) ==
    IF rig.bone[name].parent = None THEN <<>>
    ELSE <<rig.bone[name].parent>> \o Ancestors(rig, rig.bone[name].parent)

Digits == <<"1", "2", "3", "4", "5", "6", "7", "8", "9">>

NumSuffix(k) == <<".", "0", "0", Digits[k]>>

\* The name the host gives a new bone: the requested name, or the requested
\* name with the first free numeric suffix when it is taken.
unique_name(names, name) ==
    IF name \notin names THEN name
    ELSE LET k == CHOOSE i \in 1..9 :
                    /\ (name \o NumSuffix(i)) \notin names
                    /\ \A j \in 1..(i - 1) : (name \o NumSuffix(j)) \in names
         IN  name \o NumSuffix(k)

\* rig.data.edit_bones.new(name): the rig with the bone appended, and its name
edit_bones_new(rig, name) ==
    LET n == unique_name(BoneNames(rig), name)
    IN  [rig |-> [rig EXCEPT !.order = Append(@, n),
                             !.bone = [b \in BoneNames(rig) \cup {n} |->
                                        IF b = n THEN NewBoneRecord ELSE rig.bone[b]]],
         name |-> n]

-----------------------------------------------------------------------------
(* Operations.  Each takes the rigs and the call's arguments, together     *)
(* with the answers of the host's mode-switch service during the call,     *)
(* and yields an outcome: the destination rig after the call, the value    *)
(* returned (ret is its kind, bone the bone returned, defs the list        *)
(* returned), the levels written to the log, whether an exception left     *)
(* the call, and the names of the bones the call created.                  *)

Outcome(rig) ==
    [rig |-> rig, ret |-> "none", bone |-> None, defs |-> <<>>,
     log |-> {}, raised |-> FALSE, created |-> <<>>]

Raise(out) == [out EXCEPT !.ret = "raised", !.raised = TRUE]

\* utils.edit_mode_to(rig) / utils.set_mode(mode): the host grants or refuses
\* the switch; ok is its answer.
edit_mode_to(ok) == ok

set_mode(ok) == ok

copy_edit_bone(rig, src_name, dst_name, parent_name, scale, okEdit) ==
    IF edit_mode_to(okEdit) THEN
        LET src_bone == get_edit_bone(BoneNames(rig), src_name)
        IN  IF src_bone # None /\ dst_name \notin BoneNames(rig) THEN
                LET made == edit_bones_new(rig, dst_name)
                    src == rig.bone[src_bone]
                    parent_found == parent_name \in BoneNames(made.rig)
                    rec == [made.rig.bone[made.name] EXCEPT
                               !.head = src.head,
                               !.tail = src.head + (src.tail - src.head) * scale,
                               !.roll = src.roll,
                               !.parent = IF parent_name # None /\ parent_found
                                          THEN parent_name ELSE @]
                IN  [Outcome([made.rig EXCEPT !.bone[made.name] = rec]) EXCEPT
                        !.ret = "bone", !.bone = made.name,
                        !.created = <<made.name>>,
                        !.log = IF parent_name # None /\ ~parent_found
                                THEN {"error"} ELSE {}]
            ELSE
                [Outcome(rig) EXCEPT
                    !.log = (IF src_name \notin BoneNames(rig) THEN {"error"} ELSE {})
                            \cup
                            (IF dst_name \in BoneNames(rig) THEN {"warn"} ELSE {})]
    ELSE [Outcome(rig) EXCEPT !.log = {"error"}]

new_edit_bone(rig, bone_name, parent_name, okEdit) ==
    IF edit_mode_to(okEdit) THEN
        IF bone_name \notin BoneNames(rig) THEN
            LET made == edit_bones_new(rig, bone_name)
                parent_found == parent_name \in BoneNames(made.rig)
                rec == [made.rig.bone[made.name] EXCEPT
                           !.head = 0,
                           !.tail = 0 + 5,
                           !.roll = 0,
                           !.parent = IF parent_name # None /\ parent_found
                                      THEN parent_name ELSE @]
            IN  [Outcome([made.rig EXCEPT !.bone[made.name] = rec]) EXCEPT
                    !.ret = "bone", !.bone = made.name,
                    !.created = <<made.name>>,
                    !.log = IF parent_name # None /\ ~parent_found
                            THEN {"error"} ELSE {}]
        ELSE [Outcome(rig) EXCEPT !.log = {"warn"}]
    ELSE [Outcome(rig) EXCEPT !.log = {"error"}]

copy_rl_edit_bone(cc3_rig, dst_rig, cc3_name, dst_name, dst_parent_name, scale, okSrc, okDst) ==
    IF edit_mode_to(okSrc) THEN
        LET src_bone == get_rl_edit_bone(BoneNames(cc3_rig), cc3_name)
        IN  IF src_bone # None THEN
                LET head_pos == cc3_rig.scale * cc3_rig.bone[src_bone].head
                    tail_pos == cc3_rig.scale * cc3_rig.bone[src_bone].tail
                    roll == cc3_rig.bone[src_bone].roll
                IN  IF edit_mode_to(okDst) THEN
                        LET made == edit_bones_new(dst_rig, dst_name)
                            parent_bone == get_edit_bone(BoneNames(made.rig), dst_parent_name)
                            rec == [made.rig.bone[made.name] EXCEPT
                                       !.head = head_pos,
                                       !.tail = head_pos + (tail_pos - head_pos) * scale,
                                       !.roll = roll,
                                       !.parent = IF dst_parent_name # None /\ parent_bone # None
                                                  THEN parent_bone ELSE @]
                        IN  [Outcome([made.rig EXCEPT !.bone[made.name] = rec]) EXCEPT
                                !.ret = "bone", !.bone = made.name,
                                !.created = <<made.name>>,
                                !.log = IF dst_parent_name # None /\ parent_bone = None
                                        THEN {"error"} ELSE {}]
                    ELSE [Outcome(dst_rig) EXCEPT !.log = {"error"}]
            ELSE [Outcome(dst_rig) EXCEPT !.log = {"error"}]
    ELSE [Outcome(dst_rig) EXCEPT !.log = {"error"}]

\* One entry of the subtree definition: bone_data of get_edit_bone_subtree_defs,
\* with new_name the eighth element appended by the copy.
bone_data(rig, name) ==
    [name |-> name,
     head |-> rig.scale * rig.bone[name].head,
     tail |-> rig.scale * rig.bone[name].tail,
     roll |-> rig.bone[name].roll,
     parent |-> rig.bone[name].parent,
     new_name |-> None]

RECURSIVE subtree_of_children(_, _)
RECURSIVE get_edit_bone_subtree_defs(_, _)

\* the definitions of the sub-trees of the bones of kids, one after another
subtree_of_children(rig, kids) ==
    IF kids = <<>> THEN <<>>
    ELSE get_edit_bone_subtree_defs(rig, Head(kids))
            \o subtree_of_children(rig, Tail(kids))

\* Pre-order list of bone (which must have a parent) and its descendants.
\* The edit mode asked for again at every bone is already held.
get_edit_bone_subtree_defs(rig, bone) ==
    IF rig.bone[bone].parent # None
    THEN <<bone_data(rig, bone)>> \o subtree_of_children(rig, children(rig, bone))
    ELSE <<>>

\* The loop of copy_rl_edit_bone_subtree over src_bone_defs[i..]: st holds the
\* destination rig and the definitions handled so far.
RECURSIVE create_bone_defs(_, _, _, _, _, _)
create_bone_defs(st, src_bone_defs, i, cc3_name, dst_name, layer) ==
    IF i > Len(src_bone_defs) THEN st
    ELSE
        LET bone_def == src_bone_defs[i]
            name == IF bone_def.name = cc3_name THEN dst_name ELSE bone_def.name
            made == edit_bones_new(st.rig, name)
            parent_bone == get_edit_bone(BoneNames(made.rig), bone_def.parent)
            rec == [made.rig.bone[made.name] EXCEPT
                       !.head = bone_def.head,
                       !.tail = bone_def.tail,
                       !.roll = bone_def.roll,
                       !.elayers = LayerFlags(layer),
                       !.parent = IF parent_bone # None THEN parent_bone ELSE @]
        IN  create_bone_defs(
                [rig |-> [made.rig EXCEPT !.bone[made.name] = rec],
                 defs |-> Append(st.defs, [bone_def EXCEPT !.new_name = made.name])],
                src_bone_defs, i + 1, cc3_name, dst_name, layer)

\* variant: the pose bone layers are left as the host made them
set_pose_layers_skipped(rig, defs, layer) == rig

\* "finally set pose bone layers": the data bone of every definition
set_pose_layers(rig, defs, layer) ==
    [rig EXCEPT !.bone = [b \in DOMAIN rig.bone |->
        IF \E i \in 1..Len(defs) : defs[i].new_name = b
        THEN [rig.bone[b] EXCEPT !.blayers = LayerFlags(layer)]
        ELSE rig.bone[b]]]

copy_rl_edit_bone_subtree(cc3_rig, dst_rig, cc3_name, dst_name, dst_parent_name, layer, okSrc, okDst, okObj) ==
    IF edit_mode_to(okSrc) THEN
        LET cc3_bone == get_edit_bone(BoneNames(cc3_rig), cc3_name)
        IN  IF cc3_bone = None
            THEN Raise(Outcome(dst_rig))   \* bone.parent of None
            ELSE
                LET src_bone_defs == get_edit_bone_subtree_defs(cc3_rig, cc3_bone)
                IN  IF edit_mode_to(okDst) THEN
                        LET made == create_bone_defs([rig |-> dst_rig, defs |-> <<>>],
                                        src_bone_defs, 1, cc3_name, dst_name, layer)
                            dst_bone == get_edit_bone(BoneNames(made.rig), dst_name)
                            dst_parent_bone == get_edit_bone(BoneNames(made.rig), dst_parent_name)
                            linked == IF dst_bone # None /\ dst_parent_bone # None
                                      THEN [made.rig EXCEPT !.bone[dst_bone].parent = dst_parent_bone]
                                      ELSE made.rig
                            final == IF set_mode(okObj)
                                     THEN set_pose_layers(linked, made.defs, layer)
                                     ELSE linked
                        IN  [Outcome(final) EXCEPT
                                !.ret = "defs", !.defs = made.defs,
                                !.created = [i \in 1..Len(made.defs) |-> made.defs[i].new_name]]
                    ELSE [Outcome(dst_rig) EXCEPT !.ret = "defs", !.defs = src_bone_defs]
    ELSE Outcome(dst_rig)

\* bone.name = to_name: the bone keeps its place, its fields and its children
renamed(rig, from_name, to_name) ==
    LET nm(n) == IF n = from_name THEN to_name ELSE n
    IN  [rig EXCEPT
            !.order = [i \in 1..Len(rig.order) |-> nm(rig.order[i])],
            !.bone = [b \in {nm(n) : n \in BoneNames(rig)} |->
                        LET old == IF b = to_name THEN from_name ELSE b
                        IN  [rig.bone[old] EXCEPT !.parent = nm(@)]]]

rename_bone(rig, from_name, to_name, okEdit) ==
    IF edit_mode_to(okEdit) THEN
        LET bone == get_edit_bone(BoneNames(rig), from_name)
        IN  IF bone # None /\ to_name \notin BoneNames(rig)
            THEN Outcome(renamed(rig, bone, to_name))
            ELSE [Outcome(rig) EXCEPT !.log = {"error"}]
    ELSE Outcome(rig)

set_edit_bone_layer(rig, bone_name, layer) ==
    [rig EXCEPT !.bone[bone_name].elayers = LayerFlags(layer)]

set_pose_bone_layer(rig, bone_name, layer) ==
    [rig EXCEPT !.bone[bone_name].blayers = LayerFlags(layer)]

\* rig.data.edit_bones[bone_name] and rig.data.bones[bone_name] raise KeyError
\* for a name the rig does not hold.
set_bone_layer(rig, bone_name, layer, okEdit, okObj) ==
    IF (edit_mode_to(okEdit) \/ set_mode(okObj)) /\ bone_name \notin BoneNames(rig)
    THEN Raise(Outcome(rig))
    ELSE LET r1 == IF edit_mode_to(okEdit)
                   THEN set_edit_bone_layer(rig, bone_name, layer) ELSE rig
             r2 == IF set_mode(okObj)
                   THEN set_pose_bone_layer(r1, bone_name, layer) ELSE r1
         IN  Outcome(r2)

\* (v).normalized() of a vector along the one axis modelled
normalized(v) == IF v > 0 THEN 1 ELSE IF v < 0 THEN -1 ELSE 0

\* The loop of copy_position over copy_bones: the sums and the count.
RECURSIVE sum_positions(_, _, _, _)
sum_positions(rig, copy_bones, offset, acc) ==
    IF copy_bones = <<>> THEN acc
    ELSE LET copy_name == Head(copy_bones)
             next == IF copy_name \in BoneNames(rig)
                     THEN LET copy_bone == rig.bone[copy_name]
                              dir == normalized(copy_bone.tail - copy_bone.head)
                          IN  [head |-> acc.head + copy_bone.head + dir * offset,
                               tail |-> acc.tail + copy_bone.tail + dir * offset,
                               num |-> acc.num + 1]
                     ELSE acc
         IN  sum_positions(rig, Tail(copy_bones), offset, next)

\* "head_position /= num" raises ZeroDivisionError when num is 0.
copy_position(rig, bone, copy_bones, offset, okEdit) ==
    IF edit_mode_to(okEdit) THEN
        IF bone \in BoneNames(rig) THEN
            LET sums == sum_positions(rig, copy_bones, offset,
                                      [head |-> 0, tail |-> 0, num |-> 0])
            IN  IF sums.num = 0 THEN Raise(Outcome(rig))
                ELSE [Outcome([rig EXCEPT
                                  !.bone[bone].head = sums.head \div sums.num,
                                  !.bone[bone].tail = sums.tail \div sums.num])
                        EXCEPT !.ret = "bone", !.bone = bone]
        ELSE [Outcome(rig) EXCEPT !.log = {"error"}]
    ELSE Outcome(rig)

\* rig.animation_data is None on a rig without animation data.
clear_drivers(rig) ==
    IF ~rig.anim THEN Raise(Outcome(rig))
    ELSE Outcome([rig EXCEPT !.drivers = 0])

\* to_pose_bone.constraints.new(...) followed by the settings of the builder:
\* the rig with constraint c appended to the constraints of to_bone.
\* variant: the new constraint takes the place of the ones the bone had
with_constraint_replacing(rig, to_bone, c) ==
    [Outcome([rig EXCEPT !.bone[to_bone].cons = <<c>>]) EXCEPT
        !.ret = "constraint"]

with_constraint(rig, to_bone, c) ==
    [Outcome([rig EXCEPT !.bone[to_bone].cons = Append(@, c)]) EXCEPT
        !.ret = "constraint"]

\* The except branch of a builder: to_rig.pose.bones[to_bone] raised KeyError.
builder_failed(rig) == [Outcome(rig) EXCEPT !.log = {"error"}]

owner_space_of(space) == IF space = "LOCAL_OWNER_ORIENT" THEN "LOCAL" ELSE space

add_copy_transforms_constraint(from_rig, to_rig, from_bone, to_bone, influence, space, okObj) ==
    IF set_mode(okObj) THEN
        IF to_bone \notin BoneNames(to_rig) THEN builder_failed(to_rig)
        ELSE with_constraint(to_rig, to_bone,
                [type |-> "COPY_TRANSFORMS", target |-> from_rig,
                 subtarget |-> from_bone, target_space |-> space,
                 owner_space |-> space, influence |-> influence,
                 head_tail |-> 0, distance |-> 0])
    ELSE Outcome(to_rig)

add_copy_rotation_constraint(from_rig, to_rig, from_bone, to_bone, influence, space, okObj) ==
    IF set_mode(okObj) THEN
        IF to_bone \notin BoneNames(to_rig) THEN builder_failed(to_rig)
        ELSE with_constraint(to_rig, to_bone,
                [type |-> "COPY_ROTATION", target |-> from_rig,
                 subtarget |-> from_bone, target_space |-> space,
                 owner_space |-> owner_space_of(space), influence |-> influence,
                 head_tail |-> 0, distance |-> 0])
    ELSE Outcome(to_rig)

add_copy_location_constraint(from_rig, to_rig, from_bone, to_bone, influence, space, okObj) ==
    IF set_mode(okObj) THEN
        IF to_bone \notin BoneNames(to_rig) THEN builder_failed(to_rig)
        ELSE with_constraint(to_rig, to_bone,
                [type |-> "COPY_LOCATION", target |-> from_rig,
                 subtarget |-> from_bone, target_space |-> space,
                 owner_space |-> owner_space_of(space), influence |-> influence,
                 head_tail |-> 0, distance |-> 0])
    ELSE Outcome(to_rig)

add_damped_track_constraint(rig, bone_name, target_name, influence, okObj) ==
    IF set_mode(okObj) THEN
        IF bone_name \notin BoneNames(rig) THEN builder_failed(rig)
        ELSE with_constraint(rig, bone_name,
                [type |-> "DAMPED_TRACK", target |-> "self",
                 subtarget |-> target_name, target_space |-> "WORLD",
                 owner_space |-> "WORLD", influence |-> influence,
                 head_tail |-> 0, distance |-> 0])
    ELSE Outcome(rig)

add_limit_distance_constraint(from_rig, to_rig, from_bone, to_bone, distance, influence, space, okObj) ==
    IF set_mode(okObj) THEN
        IF to_bone \notin BoneNames(to_rig) THEN builder_failed(to_rig)
        ELSE with_constraint(to_rig, to_bone,
                [type |-> "LIMIT_DISTANCE", target |-> from_rig,
                 subtarget |-> from_bone, target_space |-> space,
                 owner_space |-> space, influence |-> influence,
                 head_tail |-> 0, distance |-> distance])
    ELSE Outcome(to_rig)

clear_constraints(rig, pose_bone_name, okObj) ==
    IF pose_bone_name # None /\ set_mode(okObj) /\ pose_bone_name \in BoneNames(rig)
    THEN Outcome([rig EXCEPT !.bone[pose_bone_name].cons = <<>>])
    ELSE Outcome(rig)

-----------------------------------------------------------------------------
(* Rig states and call arguments                                           *)

MaxSrcBones == 3

SrcNameSeq == <<<<"r">>, <<"a">>, <<"b">>, <<"c">>, <<"d">>, <<"e">>>>

SrcOrder == SubSeq(SrcNameSeq, 1, MaxSrcBones)

P == <<"p">>

A == <<"a">>

New == <<"n">>

Absent == <<"z">>

\* the source rigs: every forest over SrcOrder whose parents precede their
\* children in the collection
SrcRigs ==
    {[order |-> SrcOrder,
      bone |-> [b \in {SrcOrder[i] : i \in 1..MaxSrcBones} |->
                  LET i == CHOOSE k \in 1..MaxSrcBones : SrcOrder[k] = b
                  IN  [NewBoneRecord EXCEPT
                          !.parent = IF par[i] = 0 THEN None ELSE SrcOrder[par[i]],
                          !.head = i, !.tail = 3 * i, !.roll = i]],
      scale |-> 2, anim |-> FALSE, drivers |-> 0] :
     par \in {f \in [1..MaxSrcBones -> 0..MaxSrcBones] :
                \A i \in 1..MaxSrcBones : f[i] < i}}

SomeConstraint ==
    [type |-> "COPY_LOCATION", target |-> "from_rig", subtarget |-> A,
     target_space |-> "WORLD", owner_space |-> "WORLD", influence |-> 1,
     head_tail |-> 0, distance |-> 0]

\* the destination rigs: bone p alone or with a bone a parented to p; bare, or
\* with a constraint on p and animation data holding drivers
DstRigs ==
    {[order |-> IF withA THEN <<P, A>> ELSE <<P>>,
      bone |-> [b \in (IF withA THEN {P, A} ELSE {P}) |->
                  IF b = P
                  THEN [NewBoneRecord EXCEPT
                           !.tail = 4,
                           !.cons = IF rigged THEN <<SomeConstraint>> ELSE <<>>]
                  ELSE [NewBoneRecord EXCEPT !.parent = P, !.head = 4, !.tail = 2]],
      scale |-> 1, anim |-> rigged, drivers |-> IF rigged THEN 2 ELSE 0] :
     withA \in BOOLEAN, rigged \in BOOLEAN}

NoArgs ==
    [src |-> None, dst |-> None, parent |-> None, layer |-> 0, scale |-> 1,
     list |-> <<>>, space |-> "WORLD",
     okSrc |-> TRUE, okDst |-> TRUE, okObj |-> TRUE]

NoCall ==
    [op |-> "none", arg |-> NoArgs, ret |-> "none", bone |-> None, defs |-> <<>>,
     log |-> {}, raised |-> FALSE, created |-> <<>>]

\* the record of a call: its name, its arguments and its outcome
Called(op, arg, out) ==
    [op |-> op, arg |-> arg, ret |-> out.ret, bone |-> out.bone, defs |-> out.defs,
     log |-> out.log, raised |-> out.raised, created |-> out.created]

LayerInputs == {0, NumLayers - 1, NumLayers}

ScaleInputs == {1, 2}

ParentInputs == {None, P, Absent}

Init ==
    /\ nmIn = None /\ nmOut = None
    /\ accIn = None /\ accOut = None
    /\ cc3 \in SrcRigs
    /\ dst0 \in DstRigs
    /\ dst = dst0
    /\ last = NoCall

\* one call of op with arguments arg and outcome out
Do(op, arg, out) ==
    /\ last.op = "none"
    /\ dst' = out.rig
    /\ last' = Called(op, arg, out)
    /\ UNCHANGED <<nmIn, nmOut, cc3, dst0, accIn, accOut>>

DstArgs == BoneNames(dst) \cup {Absent}

SrcArgs == BoneNames(cc3) \cup {Absent}

CopyEditBone ==
    \E src_name \in DstArgs, dst_name \in {New, P}, parent_name \in ParentInputs,
       scale \in ScaleInputs, okEdit \in BOOLEAN :
        Do("copy_edit_bone",
           [NoArgs EXCEPT !.src = src_name, !.dst = dst_name, !.parent = parent_name,
                          !.scale = scale, !.okDst = okEdit],
           copy_edit_bone(dst, src_name, dst_name, parent_name, scale, okEdit))

NewEditBone ==
    \E bone_name \in {New, P}, parent_name \in ParentInputs, okEdit \in BOOLEAN :
        Do("new_edit_bone",
           [NoArgs EXCEPT !.dst = bone_name, !.parent = parent_name, !.okDst = okEdit],
           new_edit_bone(dst, bone_name, parent_name, okEdit))

CopyRlEditBone ==
    \E cc3_name \in SrcArgs \cup {CC_Base \o A, RL \o Absent},
       dst_name \in {New, A}, dst_parent_name \in ParentInputs,
       scale \in ScaleInputs, okSrc \in BOOLEAN, okDst \in BOOLEAN :
        Do("copy_rl_edit_bone",
           [NoArgs EXCEPT !.src = cc3_name, !.dst = dst_name, !.parent = dst_parent_name,
                          !.scale = scale, !.okSrc = okSrc, !.okDst = okDst],
           copy_rl_edit_bone(cc3, dst, cc3_name, dst_name, dst_parent_name, scale,
                             okSrc, okDst))

CopyRlEditBoneSubtree ==
    \E cc3_name \in SrcArgs, rename \in BOOLEAN, dst_parent_name \in ParentInputs,
       layer \in LayerInputs, okSrc \in BOOLEAN, okDst \in BOOLEAN, okObj \in BOOLEAN :
        LET dst_name == IF rename THEN New ELSE cc3_name
        IN  Do("copy_rl_edit_bone_subtree",
               [NoArgs EXCEPT !.src = cc3_name, !.dst = dst_name,
                              !.parent = dst_parent_name, !.layer = layer,
                              !.okSrc = okSrc, !.okDst = okDst, !.okObj = okObj],
               copy_rl_edit_bone_subtree(cc3, dst, cc3_name, dst_name, dst_parent_name,
                                         layer, okSrc, okDst, okObj))

RenameBone ==
    \E from_name \in DstArgs, to_name \in {New, P, A}, okEdit \in BOOLEAN :
        Do("rename_bone",
           [NoArgs EXCEPT !.src = from_name, !.dst = to_name, !.okDst = okEdit],
           rename_bone(dst, from_name, to_name, okEdit))

SetBoneLayer ==
    \E bone_name \in DstArgs, layer \in LayerInputs,
       okEdit \in BOOLEAN, okObj \in BOOLEAN :
        Do("set_bone_layer",
           [NoArgs EXCEPT !.dst = bone_name, !.layer = layer,
                          !.okDst = okEdit, !.okObj = okObj],
           set_bone_layer(dst, bone_name, layer, okEdit, okObj))

CopyBonesInputs == {<<>>, <<Absent>>, <<P>>, <<P, A>>, <<Absent, P>>}

CopyPosition ==
    \E bone \in DstArgs, copy_bones \in CopyBonesInputs, offset \in {0, 1},
       okEdit \in BOOLEAN :
        Do("copy_position",
           [NoArgs EXCEPT !.dst = bone, !.list = copy_bones, !.scale = offset,
                          !.okDst = okEdit],
           copy_position(dst, bone, copy_bones, offset, okEdit))

SpaceInputs == {"WORLD", "LOCAL_OWNER_ORIENT"}

AddCopyTransformsConstraint ==
    \E from_bone \in {A}, to_bone \in DstArgs, space \in SpaceInputs, okObj \in BOOLEAN :
        Do("add_copy_transforms_constraint",
           [NoArgs EXCEPT !.src = from_bone, !.dst = to_bone, !.space = space,
                          !.okObj = okObj],
           add_copy_transforms_constraint("from_rig", dst, from_bone, to_bone, 1,
                                          space, okObj))

AddCopyRotationConstraint ==
    \E from_bone \in {A}, to_bone \in DstArgs, space \in SpaceInputs, okObj \in BOOLEAN :
        Do("add_copy_rotation_constraint",
           [NoArgs EXCEPT !.src = from_bone, !.dst = to_bone, !.space = space,
                          !.okObj = okObj],
           add_copy_rotation_constraint("from_rig", dst, from_bone, to_bone, 1,
                                        space, okObj))

AddCopyLocationConstraint ==
    \E from_bone \in {A}, to_bone \in DstArgs, space \in SpaceInputs, okObj \in BOOLEAN :
        Do("add_copy_location_constraint",
           [NoArgs EXCEPT !.src = from_bone, !.dst = to_bone, !.space = space,
                          !.okObj = okObj],
           add_copy_location_constraint("from_rig", dst, from_bone, to_bone, 1,
                                        space, okObj))

AddDampedTrackConstraint ==
    \E bone_name \in DstArgs, target_name \in {A}, okObj \in BOOLEAN :
        Do("add_damped_track_constraint",
           [NoArgs EXCEPT !.src = target_name, !.dst = bone_name, !.okObj = okObj],
           add_damped_track_constraint(dst, bone_name, target_name, 1, okObj))

AddLimitDistanceConstraint ==
    \E from_bone \in {A}, to_bone \in DstArgs, distance \in {1, 2},
       space \in SpaceInputs, okObj \in BOOLEAN :
        Do("add_limit_distance_constraint",
           [NoArgs EXCEPT !.src = from_bone, !.dst = to_bone, !.scale = distance,
                          !.space = space, !.okObj = okObj],
           add_limit_distance_constraint("from_rig", dst, from_bone, to_bone, distance,
                                         1, space, okObj))

ClearConstraints ==
    \E pose_bone_name \in DstArgs \cup {None}, okObj \in BOOLEAN :
        Do("clear_constraints",
           [NoArgs EXCEPT !.dst = pose_bone_name, !.okObj = okObj],
           clear_constraints(dst, pose_bone_name, okObj))

ClearDrivers ==
    Do("clear_drivers", NoArgs, clear_drivers(dst))

Next ==
    \/ CopyEditBone
    \/ NewEditBone
    \/ CopyRlEditBone
    \/ CopyRlEditBoneSubtree
    \/ RenameBone
    \/ SetBoneLayer
    \/ CopyPosition
    \/ AddCopyTransformsConstraint
    \/ AddCopyRotationConstraint
    \/ AddCopyLocationConstraint
    \/ AddDampedTrackConstraint
    \/ AddLimitDistanceConstraint
    \/ ClearConstraints
    \/ ClearDrivers

Spec == Init /\ [][Next]_vars

-----------------------------------------------------------------------------
(* Claims on the rig operations (Spec)                                     *)

\* the bone and all its descendants, from the parent pointers
SubtreeOf(rig, name) ==
    {b \in BoneNames(rig) :
        b = name \/ \E i \in 1..Len(Ancestors(rig, b)) : Ancestors(rig, b)[i] = name}

\* the destination name of the copy of source bone s, from the returned list
CopyOf(s) ==
    LET i == CHOOSE k \in 1..Len(last.defs) : last.defs[k].name = s
    IN  last.defs[i].new_name

SubtreeCopied ==
    /\ last.op = "copy_rl_edit_bone_subtree"
    /\ last.ret = "defs"
    /\ last.arg.okSrc /\ last.arg.okDst /\ last.arg.okObj

\* C1, in the cases most favourable to it (every mode switch granted, the
\* source bone has a parent, dst_parent_name is a destination bone, no
\* destination bone bears the name of a copied bone): the destination gets
\* exactly as many new bones as the source subtree has, the parent of each
\* new bone is the copy of its source parent, and the parent of the copy of
\* the root is dst_parent_name.
C1_SubtreeTopology ==
    (/\ SubtreeCopied
     /\ last.arg.src \in BoneNames(cc3)
     /\ cc3.bone[last.arg.src].parent # None
     /\ last.arg.parent \in BoneNames(dst0)
     /\ BoneNames(dst0) \cap (SubtreeOf(cc3, last.arg.src) \cup {last.arg.dst}) = {})
        => LET sub == SubtreeOf(cc3, last.arg.src)
           IN  /\ Len(dst.order) = Len(dst0.order) + Cardinality(sub)
               /\ \A s \in sub :
                    /\ \E k \in 1..Len(last.defs) : last.defs[k].name = s
                    /\ CopyOf(s) \in BoneNames(dst) \ BoneNames(dst0)
                    /\ dst.bone[CopyOf(s)].parent =
                            IF s = last.arg.src THEN last.arg.parent
                            ELSE CopyOf(cc3.bone[s].parent)

BuilderOps ==
    {"add_copy_transforms_constraint", "add_copy_rotation_constraint",
     "add_copy_location_constraint", "add_damped_track_constraint",
     "add_limit_distance_constraint"}

\* C3: a constraint builder called with an owner that is no pose bone of the
\* rig adds no constraint, returns none and logs an error.
C3_AbsentOwner ==
    (last.op \in BuilderOps /\ last.arg.dst \notin BoneNames(dst0))
        => (/\ dst = dst0
            /\ last.ret = "none"
            /\ "error" \in last.log)

\* C7: rename_bone to a name the rig already holds leaves every bone name as
\* it was and logs an error.
C7_RenameToExisting ==
    (last.op = "rename_bone" /\ last.arg.dst \in BoneNames(dst0))
        => (/\ dst.order = dst0.order
            /\ BoneNames(dst) = BoneNames(dst0)
            /\ "error" \in last.log)

\* C8: copy_position with no name of copy_bones in the rig ends without an
\* exception: none is returned and the rig is unchanged.
C8_NoCopyBones ==
    (/\ last.op = "copy_position"
     /\ \A i \in 1..Len(last.arg.list) : last.arg.list[i] \notin BoneNames(dst0))
        => (/\ ~last.raised
            /\ last.ret = "none"
            /\ dst = dst0)

\* C9: no call of any operation ends with an exception.
C9_NoExceptionEscapes == ~last.raised

CreatingOps ==
    {"copy_edit_bone", "new_edit_bone", "copy_rl_edit_bone",
     "copy_rl_edit_bone_subtree"}

\* C10: a bone-creating operation whose destination name is already a bone of
\* the destination rig, or that is refused an edit-mode switch, writes to the
\* log and returns none.
C10_CollisionOrRefusal ==
    (/\ last.op \in CreatingOps
     /\ \/ last.arg.dst \in BoneNames(dst0)
        \/ ~last.arg.okSrc
        \/ ~last.arg.okDst)
        => (last.ret = "none" /\ last.log # {})

-----------------------------------------------------------------------------
(* Accessory bone classifier                                               *)

\* bone_mappings is a sequence of pairs <<source concept, destination name>>
bone_mapping_contains_bone(bone_mappings, bone_name) ==
    \E i \in 1..Len(bone_mappings) :
        cmp_rl_bone_names(bone_mappings[i][2], bone_name)

\* variant: only the parent of the bone is looked up in the list
bone_parent_in_list_direct(rig, bone_list, bone) ==
    /\ bone # None
    /\ rig.bone[bone].parent # None
    /\ \E i \in 1..Len(bone_list) : bone_list[i] = rig.bone[bone].parent

RECURSIVE bone_parent_in_list(_, _, _)
bone_parent_in_list(rig, bone_list, bone) ==
    IF bone = None \/ rig.bone[bone].parent = None THEN FALSE
    ELSE IF \E i \in 1..Len(bone_list) : bone_list[i] = rig.bone[bone].parent THEN TRUE
    ELSE bone_parent_in_list(rig, bone_list, rig.bone[bone].parent)

\* variant: a bone is recorded whatever its ancestors
RECURSIVE accessory_loop_no_ancestor_test(_, _, _, _)
accessory_loop_no_ancestor_test(bone_mappings, rig, i, accessory_bones) ==
    IF i > Len(rig.order) THEN accessory_bones
    ELSE
        LET bone_name == rig.order[i]
            add == /\ ~bone_mapping_contains_bone(bone_mappings, bone_name)
                   /\ ~(\E k \in 1..Len(accessory_bones) : accessory_bones[k] = bone_name)
        IN  accessory_loop_no_ancestor_test(bone_mappings, rig, i + 1,
                IF add THEN Append(accessory_bones, bone_name) ELSE accessory_bones)

\* The loop of find_accessory_bones over rig.data.bones[i..].
RECURSIVE accessory_loop(_, _, _, _)
accessory_loop(bone_mappings, rig, i, accessory_bones) ==
    IF i > Len(rig.order) THEN accessory_bones
    ELSE
        LET bone_name == rig.order[i]
            add == /\ ~bone_mapping_contains_bone(bone_mappings, bone_name)
                   /\ ~(\E k \in 1..Len(accessory_bones) : accessory_bones[k] = bone_name)
                   /\ ~bone_parent_in_list(rig, accessory_bones, bone_name)
        IN  accessory_loop(bone_mappings, rig, i + 1,
                IF add THEN Append(accessory_bones, bone_name) ELSE accessory_bones)

\* variant: only the unmapped bones that have no parent are recorded
find_accessory_bones_parentless(bone_mappings, rig) ==
    SelectSeq(rig.order,
        LAMBDA b : /\ ~bone_mapping_contains_bone(bone_mappings, b)
                   /\ rig.bone[b].parent = None)

find_accessory_bones(bone_mappings, rig) ==
    accessory_loop(bone_mappings, rig, 1, <<>>)

\* The while loop of get_accessory_root_bone: bone climbs to its parent, root
\* is the last unmapped parent met.
RECURSIVE accessory_root_walk(_, _, _, _)
accessory_root_walk(bone_mappings, rig, bone, root) ==
    IF rig.bone[bone].parent = None THEN root
    ELSE accessory_root_walk(bone_mappings, rig, rig.bone[bone].parent,
            IF ~bone_mapping_contains_bone(bone_mappings, rig.bone[bone].parent)
            THEN rig.bone[bone].parent ELSE root)

\* variant: the climb stops at the first unmapped parent
get_accessory_root_bone_nearest(bone_mappings, rig, bone) ==
    LET unmapped == SelectSeq(Ancestors(rig, bone),
                        LAMBDA a : ~bone_mapping_contains_bone(bone_mappings, a))
    IN  IF bone_mapping_contains_bone(bone_mappings, bone) \/ unmapped = <<>>
        THEN None
        ELSE Head(unmapped)

\* the name of the bone returned, or None
get_accessory_root_bone(bone_mappings, rig, bone) ==
    IF ~bone_mapping_contains_bone(bone_mappings, bone)
    THEN accessory_root_walk(bone_mappings, rig, bone, None)
    ELSE None

NoAccOut == [op |-> "none", list |-> <<>>, bone |-> None, root |-> None]

MaxAccBones == 3

AccPool == <<<<"h">>, RL \o <<"k">>, <<"m">>, CC_Base \o <<"h">>, <<"q">>>>

AccBones == {AccPool[i] : i \in 1..MaxAccBones}

MappedNames == {<<"h">>, CC_Base \o <<"k">>, <<"y">>}

MaxMappings == 2

MappingTables ==
    UNION {[1..n -> {<<"concept", m>> : m \in MappedNames}] : n \in 0..MaxMappings}

\* the enumeration orders of the bone collection
AccOrders ==
    {o \in [1..MaxAccBones -> AccBones] :
        \A i, j \in 1..MaxAccBones : i # j => o[i] # o[j]}

RECURSIVE ReachesRoot(_, _, _)
ReachesRoot(par, b, fuel) ==
    \/ par[b] = None
    \/ fuel > 0 /\ ReachesRoot(par, par[b], fuel - 1)

\* the parent maps that make a forest
AccParents ==
    {par \in [AccBones -> AccBones \cup {None}] :
        \A b \in AccBones : ReachesRoot(par, b, MaxAccBones)}

AccRigs ==
    {[order |-> o,
      bone |-> [b \in AccBones |-> [NewBoneRecord EXCEPT !.parent = par[b]]],
      scale |-> 1, anim |-> FALSE, drivers |-> 0] :
     o \in AccOrders, par \in AccParents}

\* The worked example: bones Head, Neck, HeadAccessory, Hair1, Hair2 in
\* that order, Neck and HeadAccessory under Head, Hair2 under Hair1, and a
\* mapping table whose one destination name is Head.
HeadBone == <<"H", "e", "a", "d">>

NeckBone == <<"N", "e", "c", "k">>

HeadAccessoryBone == HeadBone \o <<"A", "c", "c", "e", "s", "s", "o", "r", "y">>

Hair1Bone == <<"H", "a", "i", "r", "1">>

Hair2Bone == <<"H", "a", "i", "r", "2">>

ExampleParents ==
    (HeadBone :> None) @@ (NeckBone :> HeadBone) @@ (HeadAccessoryBone :> HeadBone)
        @@ (Hair1Bone :> None) @@ (Hair2Bone :> Hair1Bone)

ExampleRig ==
    [order |-> <<HeadBone, NeckBone, HeadAccessoryBone, Hair1Bone, Hair2Bone>>,
     bone |-> [b \in DOMAIN ExampleParents |->
                    [NewBoneRecord EXCEPT !.parent = ExampleParents[b]]],
     scale |-> 1, anim |-> FALSE, drivers |-> 0]

ExampleInput == [bone_mappings |-> <<<<"concept", HeadBone>>>>, rig |-> ExampleRig]

InitAcc ==
    /\ nmIn = None /\ nmOut = None
    /\ cc3 = None /\ dst0 = None /\ dst = None /\ last = None
    /\ accIn \in {[bone_mappings |-> t, rig |-> r] : t \in MappingTables, r \in AccRigs}
                    \cup {ExampleInput}
    /\ accOut = NoAccOut

FindAccessoryBones ==
    /\ accOut.op = "none"
    /\ accOut' = [NoAccOut EXCEPT
                    !.op = "find_accessory_bones",
                    !.list = find_accessory_bones(accIn.bone_mappings, accIn.rig)]
    /\ UNCHANGED <<nmIn, nmOut, cc3, dst0, dst, last, accIn>>

GetAccessoryRootBone ==
    /\ accOut.op = "none"
    /\ \E bone \in BoneNames(accIn.rig) :
        accOut' = [NoAccOut EXCEPT
                    !.op = "get_accessory_root_bone",
                    !.bone = bone,
                    !.root = get_accessory_root_bone(accIn.bone_mappings, accIn.rig, bone)]
    /\ UNCHANGED <<nmIn, nmOut, cc3, dst0, dst, last, accIn>>

NextAcc == FindAccessoryBones \/ GetAccessoryRootBone

SpecAcc == InitAcc /\ [][NextAcc]_vars

IsAncestor(rig, a, b) ==
    \E i \in 1..Len(Ancestors(rig, b)) : Ancestors(rig, b)[i] = a

\* C4: no name returned by find_accessory_bones matches a mapping-table entry
\* under cmp_rl_bone_names, and no returned bone has an ancestor that was in
\* the list when the bone was visited, that is, ahead of it in the list.
C4_NoMappedNoDescendant ==
    (accOut.op = "find_accessory_bones")
        => \A i \in 1..Len(accOut.list) :
            /\ \A k \in 1..Len(accIn.bone_mappings) :
                    ~cmp_rl_bone_names(accIn.bone_mappings[k][2], accOut.list[i])
            /\ \A j \in 1..(i - 1) :
                    ~IsAncestor(accIn.rig, accOut.list[j], accOut.list[i])

\* a mapped bone and an unmapped bone left out for its grandparent, the
\* parent between them being mapped
C4_Witness ==
    /\ accOut.op = "find_accessory_bones"
    /\ Len(accOut.list) >= 1
    /\ \E b \in BoneNames(accIn.rig) :
        /\ ~bone_mapping_contains_bone(accIn.bone_mappings, b)
        /\ \A i \in 1..Len(accOut.list) : accOut.list[i] # b
        /\ accIn.rig.bone[b].parent # None
        /\ bone_mapping_contains_bone(accIn.bone_mappings, accIn.rig.bone[b].parent)
        /\ \E i \in 1..Len(accOut.list) : IsAncestor(accIn.rig, accOut.list[i], b)

Mapped(b) == bone_mapping_contains_bone(accIn.bone_mappings, b)

\* an unmapped ancestor of b whose own parent exists and is mapped
BoundaryAncestors(b) ==
    {a \in BoneNames(accIn.rig) :
        /\ IsAncestor(accIn.rig, a, b)
        /\ ~Mapped(a)
        /\ accIn.rig.bone[a].parent # None
        /\ Mapped(accIn.rig.bone[a].parent)}

UnmappedAncestors(b) ==
    {a \in BoneNames(accIn.rig) : IsAncestor(accIn.rig, a, b) /\ ~Mapped(a)}

\* C11 as stated: a bone R returned by get_accessory_root_bone is an unmapped
\* ancestor of the given bone whose own parent exists and is mapped; none is
\* returned when the given bone is mapped or no ancestor is an unmapped bone
\* with a mapped parent.
C11_RootHasMappedParent ==
    (accOut.op = "get_accessory_root_bone")
        => /\ (accOut.root # None) => (accOut.root \in BoundaryAncestors(accOut.bone))
           /\ (Mapped(accOut.bone) \/ BoundaryAncestors(accOut.bone) = {})
                    => (accOut.root = None)

\* C11 amended: a bone R returned by get_accessory_root_bone is an unmapped
\* ancestor of the given bone whose own parent, if it has one, is mapped; none
\* is returned when the given bone is mapped or no ancestor is unmapped.
C11_HighestUnmappedAncestor ==
    (accOut.op = "get_accessory_root_bone")
        => /\ (accOut.root # None) =>
                /\ accOut.root \in UnmappedAncestors(accOut.bone)
                /\ accIn.rig.bone[accOut.root].parent # None
                        => Mapped(accIn.rig.bone[accOut.root].parent)
           /\ (Mapped(accOut.bone) \/ UnmappedAncestors(accOut.bone) = {})
                    => (accOut.root = None)

\* a root returned that has a mapped parent
C11_Witness ==
    /\ accOut.op = "get_accessory_root_bone"
    /\ accOut.root # None
    /\ accOut.root \in BoundaryAncestors(accOut.bone)

\* C12 as stated: on the worked example find_accessory_bones returns exactly
\* HeadAccessory, Hair1.
C12_ExampleWithoutNeck ==
    (accIn = ExampleInput /\ accOut.op = "find_accessory_bones")
        => accOut.list = <<HeadAccessoryBone, Hair1Bone>>

\* C12 amended: on the worked example find_accessory_bones returns exactly
\* Neck, HeadAccessory, Hair1: Neck is unmapped and its parent Head is not
\* recorded, Hair2 is left out because Hair1 is recorded.
C12_ExampleWithNeck ==
    (accIn = ExampleInput /\ accOut.op = "find_accessory_bones")
        => accOut.list = <<NeckBone, HeadAccessoryBone, Hair1Bone>>

\* find_accessory_bones has run on the worked example
C12_Witness ==
    /\ accIn = ExampleInput
    /\ accOut.op = "find_accessory_bones"
    /\ Len(accOut.list) > 0

NoDuplicates(list) ==
    \A i, j \in 1..Len(list) : i # j => list[i] # list[j]

NoAncestorPair(rig, list) ==
    \A i, j \in 1..Len(list) : ~IsAncestor(rig, list[i], list[j])

\* every bone is enumerated after its parent
ParentFirst(rig) ==
    \A i, j \in 1..Len(rig.order) :
        rig.bone[rig.order[j]].parent = rig.order[i] => i < j

\* C15 as stated: for every forest, mapping table and enumeration order, the
\* list returned by find_accessory_bones has no duplicates and holds no two
\* names where one bone is an ancestor of the other.
C15_NoAncestorPairAnyOrder ==
    (accOut.op = "find_accessory_bones")
        => /\ NoDuplicates(accOut.list)
           /\ NoAncestorPair(accIn.rig, accOut.list)

\* C15 amended: for every forest, mapping table and enumeration order the
\* returned list has no duplicates; when every bone is enumerated after its
\* parent it holds no two names where one bone is an ancestor of the other.
C15_NoAncestorPairParentFirst ==
    (accOut.op = "find_accessory_bones")
        => /\ NoDuplicates(accOut.list)
           /\ ParentFirst(accIn.rig) => NoAncestorPair(accIn.rig, accOut.list)

\* a parent-first enumeration with two recorded bones and an unmapped bone
\* left out
C15_Witness ==
    /\ accOut.op = "find_accessory_bones"
    /\ ParentFirst(accIn.rig)
    /\ Len(accOut.list) >= 2
    /\ \E b \in BoneNames(accIn.rig) :
        /\ ~Mapped(b)
        /\ \A i \in 1..Len(accOut.list) : accOut.list[i] # b

-----------------------------------------------------------------------------
(* Sequences of constraint-builder and clear_constraints calls (SpecCons). *)
(* dst is the rig, dst0 the rig as it was before the last call, last the   *)
(* record of the last call.                                                *)

MaxCons == 3

\* the number of constraints on the pose bones of the rig
RECURSIVE ConsCount(_, _)
ConsCount(rig, i) ==
    IF i > Len(rig.order) THEN 0
    ELSE Len(rig.bone[rig.order[i]].cons) + ConsCount(rig, i + 1)

InitCons ==
    /\ nmIn = None /\ nmOut = None
    /\ accIn = None /\ accOut = None
    /\ cc3 = None
    /\ dst0 \in DstRigs
    /\ dst = dst0
    /\ last = NoCall

\* one more call of op with arguments arg and outcome out
Then(op, arg, out) ==
    /\ dst0' = dst
    /\ dst' = out.rig
    /\ last' = Called(op, arg, out)
    /\ UNCHANGED <<nmIn, nmOut, cc3, accIn, accOut>>

ThenAddCopyTransformsConstraint ==
    /\ ConsCount(dst, 1) < MaxCons
    /\ \E to_bone \in DstArgs, okObj \in BOOLEAN :
        Then("add_copy_transforms_constraint",
             [NoArgs EXCEPT !.src = A, !.dst = to_bone, !.okObj = okObj],
             add_copy_transforms_constraint("from_rig", dst, A, to_bone, 1, "WORLD", okObj))

ThenAddCopyRotationConstraint ==
    /\ ConsCount(dst, 1) < MaxCons
    /\ \E to_bone \in DstArgs, okObj \in BOOLEAN :
        Then("add_copy_rotation_constraint",
             [NoArgs EXCEPT !.src = A, !.dst = to_bone, !.okObj = okObj],
             add_copy_rotation_constraint("from_rig", dst, A, to_bone, 1, "WORLD", okObj))

ThenAddCopyLocationConstraint ==
    /\ ConsCount(dst, 1) < MaxCons
    /\ \E to_bone \in DstArgs, okObj \in BOOLEAN :
        Then("add_copy_location_constraint",
             [NoArgs EXCEPT !.src = A, !.dst = to_bone, !.okObj = okObj],
             add_copy_location_constraint("from_rig", dst, A, to_bone, 1, "WORLD", okObj))

ThenAddDampedTrackConstraint ==
    /\ ConsCount(dst, 1) < MaxCons
    /\ \E bone_name \in DstArgs, okObj \in BOOLEAN :
        Then("add_damped_track_constraint",
             [NoArgs EXCEPT !.src = A, !.dst = bone_name, !.okObj = okObj],
             add_damped_track_constraint(dst, bone_name, A, 1, okObj))

ThenAddLimitDistanceConstraint ==
    /\ ConsCount(dst, 1) < MaxCons
    /\ \E to_bone \in DstArgs, okObj \in BOOLEAN :
        Then("add_limit_distance_constraint",
             [NoArgs EXCEPT !.src = A, !.dst = to_bone, !.okObj = okObj],
             add_limit_distance_constraint("from_rig", dst, A, to_bone, 1, 1, "WORLD", okObj))

ThenClearConstraints ==
    \E pose_bone_name \in DstArgs \cup {None}, okObj \in BOOLEAN :
        Then("clear_constraints",
             [NoArgs EXCEPT !.dst = pose_bone_name, !.okObj = okObj],
             clear_constraints(dst, pose_bone_name, okObj))

NextCons ==
    \/ ThenAddCopyTransformsConstraint
    \/ ThenAddCopyRotationConstraint
    \/ ThenAddCopyLocationConstraint
    \/ ThenAddDampedTrackConstraint
    \/ ThenAddLimitDistanceConstraint
    \/ ThenClearConstraints

SpecCons == InitCons /\ [][NextCons]_vars

\* every pose bone but b has the constraints it had before the last call
OthersKeepConstraints(b) ==
    \A o \in BoneNames(dst0) \ {b} : dst.bone[o].cons = dst0.bone[o].cons

\* C14: in any sequence of builder and clear_constraints calls, a builder
\* call on an existing owner pose bone with the mode switch granted returns
\* a constraint and leaves the owner with exactly one constraint more than
\* before the call, and clear_constraints(rig, b) with the mode switch
\* granted leaves an existing bone b with no constraint; the constraints of
\* every other pose bone are as before the call.
C14_AddsOneClearsAll ==
    /\ (/\ last.op \in BuilderOps
        /\ last.arg.okObj
        /\ last.arg.dst \in BoneNames(dst0))
            => /\ last.ret = "constraint"
               /\ Len(dst.bone[last.arg.dst].cons) = Len(dst0.bone[last.arg.dst].cons) + 1
               /\ OthersKeepConstraints(last.arg.dst)
    /\ (/\ last.op = "clear_constraints"
        /\ last.arg.okObj
        /\ last.arg.dst \in BoneNames(dst0))
            => /\ dst.bone[last.arg.dst].cons = <<>>
               /\ OthersKeepConstraints(last.arg.dst)

\* clear_constraints has emptied a bone that two identical builder calls had
\* left with two equal constraints, another bone keeping its constraint
C14_Witness ==
    /\ last.op = "clear_constraints"
    /\ last.arg.okObj
    /\ last.arg.dst \in BoneNames(dst0)
    /\ Len(dst0.bone[last.arg.dst].cons) = 2
    /\ dst0.bone[last.arg.dst].cons[1] = dst0.bone[last.arg.dst].cons[2]
    /\ dst.bone[last.arg.dst].cons = <<>>
    /\ \E o \in BoneNames(dst) \ {last.arg.dst} : dst.bone[o].cons # <<>>

====
